---- MODULE Spec2Model ----
(***************************************************************************)
(* Hailstorm cluster writer and header reader.                             *)
(*                                                                         *)
(* The model follows src/private/hailstorm_operations.cxx: the first pass  *)
(* (prepare_cluster_info / estimate_cluster_chunks), the layout computer   *)
(* (cluster_size_info), the second pass of write_cluster_internal with the *)
(* synchronous buffer sink of src/private/hailstorm_data_writer.hxx, and   *)
(* read_header applied to the bytes the writer produced.  The cluster      *)
(* buffer is modelled byte by byte; integers are stored little-endian.     *)
(***************************************************************************)
EXTENDS Integers, Naturals, Sequences, FiniteSets, TLC

\* ------------------------------------------------------------------ bounds

\* Largest number of resources in a write_data.
MaxRes == 2

\* Largest number of chunks the first pass may hold (its loop is unbounded).
MaxChunks == 3

\* Longest resource path.
MaxPathLen == 1

\* Largest number of chunks and of resources in a cluster image a caller
\* passes to read_header.
MaxReadChunks == 2

\* Longest path and longest prefix given to prefix_resource_paths.
MaxPrefixedPathLen == 2

MaxPrefixLen == 2

MaxReadRes == 1

\* ------------------------------------------------------- program constants

Constant_HailstormMagic == 1230194771

Constant_HailstormHeaderVersionV0 == 1213416240

Constant_1MiB == 1048576

Constant_1GiB == 1073741824

Constant_MetadataMinAlign == 8

\* std::numeric_limits<uint32_t>::max(), kept symbolic: no index reaches it.
Constant_U32Max == -1

SizeofHeaderBase == 16

SizeofHeader == 64

SizeofPaths == 8

SizeofChunk == 32

SizeofResource == 36

AlignofPaths == 4

AlignofChunk == 8

AlignofResource == 4

\* A byte malloc returned and nothing wrote yet.
Uninit == -1

\* ------------------------------------------------------------- primitives

Max(a, b) == IF a >= b THEN a ELSE b

Min(a, b) == IF a <= b THEN a ELSE b

\* align_to<T>: ptr_val + ((0 - ptr_val) & (alignment - 1)), alignment a
\* power of two.
align_to(v, alignment) == v + ((alignment - (v % alignment)) % alignment)

\* The unsigned comparison `lhs < rhs` where lhs was computed by size_t
\* subtractions: a mathematically negative lhs has wrapped to 2^64 + lhs,
\* which is above every rhs the model can hold.
WrapLess(lhs, rhs) == IF lhs < 0 THEN FALSE ELSE lhs < rhs

Pow256(k) == IF k = 0 THEN 1 ELSE IF k = 1 THEN 256 ELSE IF k = 2 THEN 65536 ELSE 16777216

\* Byte k (zero based) of the little-endian image of v; v < 2^31.
ByteOf(v, k) == IF v = Uninit THEN Uninit ELSE IF k > 3 THEN 0 ELSE (v \div Pow256(k)) % 256

\* The little-endian image of v in w bytes.
LE(v, w) == [k \in 1..w |-> ByteOf(v, k - 1)]

\* n bytes of value b.
Fill(n, b) == [k \in 1..n |-> b]

RECURSIVE Flatten(_)
Flatten(ss) == IF ss = <<>> THEN <<>> ELSE Head(ss) \o Flatten(Tail(ss))

RECURSIVE SumSeq(_)
SumSeq(s) == IF s = <<>> THEN 0 ELSE Head(s) + SumSeq(Tail(s))

\* ----------------------------------------------------------- struct images

\* HailstormChunk{}: every member zero.
Constant_EmptyChunk ==
    [offset |-> 0, size |-> 0, size_origin |-> 0, align |-> 0, type |-> 0,
     persistance |-> 0, count_entries |-> 0]

\* The 32 bytes of a HailstormChunk: offset u64, size u64, align u32, the
\* type/persistance/flags byte, 3 unused bytes, app_custom_value u32,
\* count_entries u32.
ChunkBytes(c) ==
    LE(c.offset, 8) \o LE(c.size, 8) \o LE(c.align, 4)
        \o <<c.type + 4 * c.persistance>> \o Fill(3, 0) \o LE(0, 4) \o LE(c.count_entries, 4)

\* The 64 bytes of a HailstormHeader.
HeaderBytes(h) ==
    LE(h.magic, 4) \o LE(h.header_version, 4) \o LE(h.header_size, 8)
        \o LE(h.offset_next, 8) \o LE(h.offset_data, 8)
        \o Fill(3, 0) \o <<0>>
        \o LE(h.count_chunks, 4) \o LE(h.count_resources, 4)
        \o LE(0, 4) \o LE(0, 4) \o LE(0, 2) \o LE(0, 2) \o LE(0, 8)

\* The 8 bytes of a HailstormPaths.
PathsBytes(p) == LE(p.offset, 4) \o LE(p.size, 4)

\* The 36 bytes of a HailstormResource as the second pass leaves it in the
\* scratch table: size_origin and the compression bytes are never assigned.
ResourceBytes(r) ==
    LE(r.chunk, 4) \o LE(r.meta_chunk, 4) \o LE(r.offset, 4) \o LE(r.size, 4)
        \o Fill(4, Uninit) \o LE(r.meta_offset, 4) \o LE(r.meta_size, 4)
        \o LE(r.path_offset, 4) \o LE(r.path_size, 2) \o Fill(2, Uninit)

\* ------------------------------------------------------------------- state

VARIABLES
    write_data,     \* HailstormWriteData: paths, data, metadata, metadata_mapping
    params,         \* HailstormWriteParams: initial_chunks, the select heuristic,
                    \* the sink (DataWriterMode) and the call the callbacks refuse
    pc,             \* position inside write_cluster / read_header
    idx,            \* loop index of the first and of the second pass
    chunks,         \* Array<HailstormChunk>
    refs,           \* Array<HailstormWriteChunkRef>
    sizes,          \* Array<size_t>: used bytes per chunk
    metatracker,    \* Array<uint32_t>
    paths_info,     \* HailstormPaths
    offsets,        \* detail::Offsets
    header,         \* HailstormHeader
    final_cluster_size,
    pack_resources, \* the scratch resource table
    paths_data,     \* the scratch path block
    paths_offset,
    memory,         \* DataWriter<Synchronous>::_memory, byte by byte
    writes,         \* the positioned writes issued so far
    out_hailstorm,  \* the HailstormData read_header fills
    read_result,    \* the Result read_header returned
    read_data,      \* the hailstorm::Data view a caller passes to read_header
    live,           \* the blocks allocated and not deallocated
    sink_open,      \* DataWriter<Asynchronous>::_open
    close_calls,    \* how often fn_async_close was invoked
    result,         \* what write_cluster / write_cluster_async returned
    prefix,         \* prefix_resource_paths: the prefix
    resources,      \* prefix_resource_paths: the span of HailstormResource
    paths_start,    \* prefix_resource_paths: the bytes of the Memory paths_data
    ex_paths_end,   \* prefix_resource_paths: offset of ex_paths_end from paths_start
    resource_idx,   \* prefix_resource_paths: the loop counter
    ub              \* the undefined behaviour the run has executed so far

\* The caller's inputs, the planner's arrays, the layout, the emitter's
\* scratch, the sink and the reader's outputs.
inputs == <<write_data, params, read_data>>

planner == <<chunks, refs, sizes, metatracker, paths_info>>

layout == <<offsets, header, final_cluster_size>>

scratch == <<pack_resources, paths_data, paths_offset>>

sink == <<memory, writes>>

reader == <<out_hailstorm, read_result>>

task == <<live, sink_open, close_calls, result>>

prefixing == <<prefix, resources, paths_start, ex_paths_end, resource_idx>>

vars == <<inputs, pc, idx, planner, layout, scratch, sink, reader, task, prefixing, ub>>

\* ------------------------------------------------------------------ inputs

\* hailstorm::Data views of the resources' blobs (size, align, and whether
\* location is nullptr, which asks the buffer sink to call fn_resource_write).
DataViews == {[size |-> 4, align |-> 4, null |-> FALSE],
              [size |-> 8, align |-> 8, null |-> FALSE]}

\* The sizes of the metadata records: a list starts with either size and
\* alternates.
MetaSizes == <<4, 8>>

MetaView(first, k) == [size |-> MetaSizes[((first + k) % 2) + 1], align |-> 8]

MixedChunk(size, align) ==
    [offset |-> 0, size |-> size, size_origin |-> 0, align |-> align, type |-> 3,
     persistance |-> 1, count_entries |-> 0]

TypedChunk(type, size, align) == [MixedChunk(size, align) EXCEPT !.type = type]

\* The initial_chunks lists a caller passes: none, one small mixed chunk (of
\* align 8 or 4), two mixed chunks, an AppSpecific chunk before a mixed one,
\* and a metadata-only chunk of align 4 with a data-only chunk.
InitialChunkLists ==
    { <<>>,
      <<MixedChunk(16, 8)>>,
      <<MixedChunk(16, 4)>>,
      <<MixedChunk(16, 8), MixedChunk(16, 8)>>,
      <<TypedChunk(0, 8, 8), MixedChunk(16, 8)>>,
      <<TypedChunk(1, 32, 4), TypedChunk(2, 16, 8)>> }

\* The path of resource i (zero based) of length len: len bytes of 97 + i.
PathOf(i, len) == Fill(len, 97 + i)

\* The bytes of metadata record m and of the blob of resource i.
MetaByte(m) == 16 + m

DataByte(i) == 32 + i

\* What a vector element past size() may hold when it is read.
GarbageSizes == {0, 8}

IsDataChunk(c) == c.type \in {2, 3}

IsMetaChunk(c) == c.type \in {1, 3}

\* The write_data lists of n resources: one blob view per resource, one
\* metadata record per resource (sizes alternating from m0), no mapping or
\* any mapping into the records, paths of lengths p0, p0 + 1, ... modulo
\* MaxPathLen + 1.
WriteDataOf(n) ==
    { [paths |-> [i \in 1..n |-> PathOf(i - 1, (p0 + i - 1) % (MaxPathLen + 1))],
       data |-> d, metadata |-> [k \in 1..n |-> MetaView(m0, k)], metadata_mapping |-> mp] :
        d \in [1..n -> DataViews], m0 \in 0..1,
        mp \in {<<>>} \cup [1..n -> 0..(n - 1)], p0 \in 0..MaxPathLen }

\* The caller contract of the select heuristics: default_chunk_select_logic
\* supports mixed chunks only and every blob's align is at most the chunk's;
\* the split select needs a data capable and a metadata capable chunk.
ParamsAccepted(wd, pr) ==
    LET first == IF pr.initial_chunks = <<>> THEN <<MixedChunk(32 * Constant_1MiB, 8)>>
                 ELSE pr.initial_chunks
        last == first[Len(first)]
    IN  IF pr.select = "default"
        THEN /\ last.type = 3
             /\ \A i \in 1..Len(first) : first[i].type \in {0, 3}
             /\ \A i \in 1..Len(wd.data) : wd.data[i].align <= last.align
        ELSE /\ Len(first) >= 2
             /\ \E i \in 1..Len(first) : IsMetaChunk(first[i])
             /\ \E i \in 1..Len(first) : IsDataChunk(first[i]) /\ first[i].align = 8

NoOffsets == [paths_info |-> 0, chunks |-> 0, resources |-> 0, paths_data |-> 0, data |-> 0]

NoHeader ==
    [magic |-> 0, header_version |-> 0, header_size |-> 0, offset_next |-> 0,
     offset_data |-> 0, count_chunks |-> 0, count_resources |-> 0]

NoHailstormData ==
    [header |-> NoHeader, chunks |-> [offset |-> 0, count |-> 0],
     resources |-> [offset |-> 0, count |-> 0],
     paths |-> [offset |-> 0, size |-> 0],
     paths_data |-> [null |-> TRUE, location |-> 0, size |-> 0]]

Init ==
    /\ \E n \in 0..MaxRes : write_data \in WriteDataOf(n)
    /\ params \in [initial_chunks : InitialChunkLists, select : {"default", "split"},
                    mode : {"Synchronous"}, refuse : {"none"}]
    /\ ParamsAccepted(write_data, params)
    /\ pc = "start"
    /\ idx = 0
    /\ chunks = <<>>
    /\ refs = <<>>
    /\ sizes = <<>>
    /\ metatracker = <<>>
    /\ paths_info = [offset |-> 0, size |-> 0]
    /\ offsets = NoOffsets
    /\ header = NoHeader
    /\ final_cluster_size = 0
    /\ pack_resources = <<>>
    /\ paths_data = <<>>
    /\ paths_offset = 0
    /\ memory = <<>>
    /\ writes = <<>>
    /\ out_hailstorm = NoHailstormData
    /\ read_result = "none"
    /\ read_data = [null |-> FALSE, size |-> 0]
    /\ live = {}
    /\ sink_open = FALSE
    /\ close_calls = 0
    /\ result = "none"
    /\ prefix = <<>>
    /\ resources = <<>>
    /\ paths_start = <<>>
    /\ ex_paths_end = 0
    /\ resource_idx = 0
    /\ ub = {}

res_count == Len(write_data.paths)

\* ------------------------------------------------------------- heuristics

\* default_chunk_select_logic: always the last chunk for both.
default_chunk_select_logic(cs) ==
    [data_chunk |-> Len(cs) - 1, meta_chunk |-> Len(cs) - 1,
     data_create |-> FALSE, meta_create |-> FALSE]

\* A caller's ChunkSelectFn for typed chunks: the last data capable chunk
\* whose align covers the blob's and the last metadata capable chunk; it
\* leaves creation to the size check.
split_chunk_select_logic(data, cs) ==
    LET DataOk(c) == IsDataChunk(c) /\ data.align <= c.align
        last_data == CHOOSE k \in 1..Len(cs) :
                         DataOk(cs[k]) /\ \A j \in (k + 1)..Len(cs) : ~DataOk(cs[j])
        last_meta == CHOOSE k \in 1..Len(cs) :
                         IsMetaChunk(cs[k]) /\ \A j \in (k + 1)..Len(cs) : ~IsMetaChunk(cs[j])
    IN  [data_chunk |-> last_data - 1, meta_chunk |-> last_meta - 1,
         data_create |-> FALSE, meta_create |-> FALSE]

\* params.fn_select_chunk: the refs the heuristic may return.
fn_select_chunk(data, cs) ==
    IF params.select = "default" THEN {default_chunk_select_logic(cs)}
    ELSE {split_chunk_select_logic(data, cs)}

\* default_chunk_create_logic (both heuristics create with it).
default_chunk_create_logic(resource_meta, resource_data, base_chunk_info) ==
    LET base == IF base_chunk_info.size = 0
                THEN [base_chunk_info EXCEPT !.align = 8, !.persistance = 1, !.type = 3,
                                             !.size = 32 * Constant_1MiB]
                ELSE base_chunk_info
        final_size == resource_meta.size + resource_data.size
    IN  IF final_size > 32 * Constant_1MiB
        THEN [base EXCEPT !.size = final_size, !.align = resource_data.align]
        ELSE base

\* ------------------------------------------------------------- first pass

\* prepare_cluster_info up to the call of estimate_cluster_chunks.
PrepareClusterInfo ==
    /\ pc = "start"
    /\ chunks' = IF params.initial_chunks = <<>>
                 THEN <<default_chunk_create_logic([size |-> 0, align |-> 8],
                                                   [size |-> 0, align |-> 8],
                                                   Constant_EmptyChunk)>>
                 ELSE params.initial_chunks
    /\ refs' = [i \in 1..res_count |->
                  [data_chunk |-> 0, meta_chunk |-> 0, data_create |-> FALSE, meta_create |-> FALSE]]
    /\ sizes' = [i \in 1..Len(chunks') |-> 0]
    /\ metatracker' = [i \in 1..Len(write_data.metadata_mapping) |-> Constant_U32Max]
    /\ paths_info' = [offset |-> 0, size |-> 8]
    /\ idx' = 0
    /\ pc' = "estimate"
    /\ live' = {"chunks", "sizes"}
                \cup (IF res_count > 0 THEN {"refs"} ELSE {})
                \cup (IF write_data.metadata_mapping # <<>> THEN {"metatracker"} ELSE {})
    /\ UNCHANGED <<inputs, layout, scratch, sink, reader, ub, sink_open, close_calls, result, prefixing>>

\* sizes[k] for a zero based k: an element past the vector's size is not the
\* vector's, and reading it gives whatever the heap holds there.
SizesRead(sz, k) == IF k < Len(sz) THEN {sz[k + 1]} ELSE GarbageSizes

\* sizes[k] = v: a store past the vector's size does not land in the vector.
SizesWrite(sz, k, v) == IF k < Len(sz) THEN [sz EXCEPT ![k + 1] = v] ELSE sz

\* The out of range accesses among the zero based indices ks.
SizesOob(sz, ks) == IF \E k \in ks : k >= Len(sz) THEN {"sizes_out_of_range"} ELSE {}

\* Lines 177-190 of estimate_cluster_chunks: the create flags the size check
\* sets, from the used bytes of the two selected chunks.
size_check(ref, cs, used_data, used_meta, meta, data) ==
    LET data_remaining == (cs[ref.data_chunk + 1].size - used_data) - data.align
        meta_remaining == (cs[ref.meta_chunk + 1].size - used_meta) - Constant_MetadataMinAlign
    IN  IF ref.data_chunk = ref.meta_chunk
        THEN [ref EXCEPT !.data_create = ref.data_create \/ WrapLess(data_remaining - meta.size, data.size),
                         !.meta_create = FALSE]
        ELSE [ref EXCEPT !.data_create = ref.data_create \/ WrapLess(data_remaining, data.size),
                         !.meta_create = ref.meta_create \/ WrapLess(meta_remaining, meta.size)]

\* Lines 167-175: the metadata chunk of a record another resource stored.
shared_meta_chunk(ref, rfs, metadata_idx) ==
    [ref EXCEPT !.meta_chunk = rfs[metadata_idx + 1].meta_chunk]

\* Lines 193-225: the chunks a create request appends.
created_chunks(ref, cs, meta, data) ==
    LET c1 == IF ref.data_create
              THEN Append(cs, [default_chunk_create_logic(meta, data, cs[ref.data_chunk + 1])
                                  EXCEPT !.offset = 0, !.size_origin = 0, !.count_entries = 0])
              ELSE cs
    IN  IF ref.meta_create
        THEN Append(c1, default_chunk_create_logic(meta, data, c1[ref.meta_chunk + 1]))
        ELSE c1

\* Lines 193-225: the used-bytes entries a create request appends.
created_sizes(ref, sz) == IF ref.data_create THEN Append(sz, 0) ELSE sz

\* The assertions of lines 203-206, 215 and 221 on a create request.
create_asserts(ref, cs, meta, data, shared_metadata) ==
    LET made == created_chunks(ref, cs, meta, data)
        first_new == made[Len(cs) + 1]
        last_new == made[Len(made)]
    IN  /\ ref.data_create =>
              \/ ref.data_chunk = ref.meta_chunk /\ first_new.type = 3
              \/ first_new.type = 2
        /\ ref.meta_create => ~shared_metadata /\ last_new.type = 1

\* Lines 248-257: the entry counts after the resource is recorded.
counted_chunks(ref, cs, shared_metadata) ==
    LET c1 == [cs EXCEPT ![ref.data_chunk + 1].count_entries = @ + 1]
    IN  IF ~shared_metadata /\ ref.data_chunk # ref.meta_chunk
        THEN [c1 EXCEPT ![ref.meta_chunk + 1].count_entries = @ + 1]
        ELSE c1

\* Lines 250-261: the used bytes after the resource is recorded.
recorded_sizes(ref, sz, used_data, used_meta, meta, data, shared_metadata) ==
    LET new_meta == align_to(used_meta, 8) + meta.size
        s1 == IF shared_metadata THEN sz ELSE SizesWrite(sz, ref.meta_chunk, new_meta)
        d1 == IF ~shared_metadata /\ ref.meta_chunk = ref.data_chunk THEN new_meta ELSE used_data
    IN  SizesWrite(s1, ref.data_chunk, align_to(d1, data.align) + data.size)

\* One iteration of the loop of estimate_cluster_chunks for resource idx:
\* every outcome, one per ref the select heuristic may return and per value
\* an out of range read may give.
EstimateOutcomes ==
    LET has_map == Len(metatracker) > 0
        metadata_idx == IF has_map THEN write_data.metadata_mapping[idx + 1] ELSE idx
        meta == write_data.metadata[metadata_idx + 1]
        data == write_data.data[idx + 1]
        shared_metadata == has_map /\ metatracker[metadata_idx + 1] # Constant_U32Max
        Selected == { IF shared_metadata THEN shared_meta_chunk(sel, refs, metadata_idx) ELSE sel :
                        sel \in fn_select_chunk(data, chunks) }
        Outcome(ref1, used_data, used_meta) ==
            LET ref == size_check(ref1, chunks, used_data, used_meta, meta, data)
                oob == SizesOob(sizes, {ref.data_chunk, ref.meta_chunk})
            IN  IF ref.data_create \/ ref.meta_create
                THEN [chunks |-> created_chunks(ref, chunks, meta, data),
                      sizes |-> created_sizes(ref, sizes),
                      refs |-> refs, metatracker |-> metatracker, paths_info |-> paths_info,
                      idx |-> idx, ub |-> ub \cup oob,
                      asserts |-> create_asserts(ref, chunks, meta, data, shared_metadata)]
                ELSE [chunks |-> counted_chunks(ref, chunks, shared_metadata),
                      sizes |-> recorded_sizes(ref, sizes, used_data, used_meta, meta, data,
                                               shared_metadata),
                      refs |-> [refs EXCEPT ![idx + 1] = ref],
                      metatracker |-> IF has_map /\ ~shared_metadata
                                      THEN [metatracker EXCEPT ![metadata_idx + 1] = idx]
                                      ELSE metatracker,
                      paths_info |-> [paths_info EXCEPT
                                        !.size = @ + Len(write_data.paths[idx + 1]) + 1],
                      idx |-> idx + 1, ub |-> ub \cup oob,
                      asserts |-> /\ IsDataChunk(chunks[ref.data_chunk + 1])
                                  /\ IsMetaChunk(chunks[ref.meta_chunk + 1])]
    IN  UNION { { Outcome(r, ud, um) : ud \in SizesRead(sizes, r.data_chunk),
                                       um \in SizesRead(sizes, r.meta_chunk) } : r \in Selected }

\* The iteration runs on (assertions compiled out, or holding).
EstimateStep ==
    /\ pc = "estimate"
    /\ idx < res_count
    /\ \E o \in EstimateOutcomes :
        /\ Len(o.chunks) <= MaxChunks
        /\ chunks' = o.chunks
        /\ sizes' = o.sizes
        /\ refs' = o.refs
        /\ metatracker' = o.metatracker
        /\ paths_info' = o.paths_info
        /\ idx' = o.idx
        /\ ub' = o.ub
    /\ pc' = pc
    /\ UNCHANGED <<inputs, layout, scratch, sink, reader, task, prefixing>>

\* The iteration fails one of its assertions in a build that keeps them.
EstimateAbort ==
    /\ pc = "estimate"
    /\ idx < res_count
    /\ \E o \in EstimateOutcomes : ~o.asserts
    /\ pc' = "aborted"
    /\ UNCHANGED <<inputs, idx, planner, layout, scratch, sink, reader, ub, task, prefixing>>

\* prepare_cluster_info after estimate_cluster_chunks returned (lines
\* 313-322): the path block padded to 8, every chunk shrunk to its used bytes.
sized_chunks(cs, sz) ==
    [k \in 1..Len(cs) |-> [cs[k] EXCEPT !.size = align_to(sz[k], cs[k].align)]]

FinishPrepare ==
    /\ pc = "estimate"
    /\ idx = res_count
    /\ paths_info' = [paths_info EXCEPT !.size = align_to(@, 8)]
    /\ \E tail \in [(Len(sizes) + 1)..Len(chunks) -> GarbageSizes] :
          chunks' = sized_chunks(chunks, [k \in 1..Len(chunks) |->
                                            IF k <= Len(sizes) THEN sizes[k] ELSE tail[k]])
    /\ ub' = ub \cup SizesOob(sizes, {Len(chunks) - 1})
    /\ pc' = "layout"
    /\ UNCHANGED <<inputs, idx, refs, sizes, metatracker, layout, scratch, sink, reader, task, prefixing>>

\* ------------------------------------------------------------------ layout

\* detail::increase_size<T>: the offset handed out is the running size
\* aligned; the running size grows by count * sizeof(T) from its old value.
increase_size(inout_size, count, sizeof_T, align) ==
    [offset |-> align_to(inout_size, align), size |-> inout_size + count * sizeof_T]

\* cluster_size_info with the path block left out of the running size.
cluster_size_info_without_paths(resource_count, cs, paths) ==
    LET s1 == increase_size(SizeofHeader, 1, SizeofPaths, AlignofPaths)
        s2 == increase_size(s1.size, Len(cs), SizeofChunk, AlignofChunk)
        s3 == increase_size(s2.size, resource_count, SizeofResource, AlignofResource)
        s4 == increase_size(s3.size, paths.size, 1, 8)
    IN  [offsets |-> [paths_info |-> s1.offset, chunks |-> s2.offset, resources |-> s3.offset,
                      paths_data |-> s4.offset, data |-> s3.size],
         final_size |-> s3.size + SumSeq([k \in 1..Len(cs) |-> cs[k].size])]

\* cluster_size_info: the offsets record and the final size.
cluster_size_info(resource_count, cs, paths) ==
    LET s1 == increase_size(SizeofHeader, 1, SizeofPaths, AlignofPaths)
        s2 == increase_size(s1.size, Len(cs), SizeofChunk, AlignofChunk)
        s3 == increase_size(s2.size, resource_count, SizeofResource, AlignofResource)
        s4 == increase_size(s3.size, paths.size, 1, 8)
    IN  [offsets |-> [paths_info |-> s1.offset, chunks |-> s2.offset, resources |-> s3.offset,
                      paths_data |-> s4.offset, data |-> s4.size],
         final_size |-> s4.size + SumSeq([k \in 1..Len(cs) |-> cs[k].size])]

\* The header with header_size set to the payload offset.
filled_header_data_offset(final_size, offs, chunk_count, resource_count) ==
    [magic |-> Constant_HailstormMagic,
     header_version |-> Constant_HailstormHeaderVersionV0,
     header_size |-> offs.data,
     offset_next |-> final_size,
     offset_data |-> offs.data,
     count_chunks |-> chunk_count % 65536,
     count_resources |-> resource_count % 65536]

\* Lines 357-370: the header the writer fills in.
filled_header(final_size, offs, chunk_count, resource_count) ==
    [magic |-> Constant_HailstormMagic,
     header_version |-> Constant_HailstormHeaderVersionV0,
     header_size |-> offs.paths_data,
     offset_next |-> final_size,
     offset_data |-> offs.data,
     count_chunks |-> chunk_count % 65536,
     count_resources |-> resource_count % 65536]

\* Lines 377-386: chunk k starts where the running offset stands, and the
\* running offset moves to align_to(offset + size, 8).
RECURSIVE placed_chunks(_, _)
placed_chunks(cs, chunk_offset) ==
    IF cs = <<>> THEN <<>>
    ELSE <<[Head(cs) EXCEPT !.size_origin = Head(cs).size, !.offset = chunk_offset]>>
            \o placed_chunks(Tail(cs), align_to(chunk_offset + Head(cs).size, 8))

\* ------------------------------------------------------- coroutine and sink

Asynchronous == params.mode = "Asynchronous"

\* The state of the task: where the emitter is, the live blocks, the stream
\* sink's _open flag, the calls of fn_async_close, the value returned.
TaskState(at, blocks, open, closes, returned) ==
    [pc |-> at, live |-> blocks, sink_open |-> open, close_calls |-> closes,
     result |-> returned]

\* The emitter goes on after an accepted step.
resumed(at, blocks) == {TaskState(at, blocks, sink_open, close_calls, result)}

\* DataWriterStage{false}: await_suspend destroys the coroutine and control
\* returns to write_cluster or write_cluster_async.  The frame's locals are
\* destroyed: the Arrays and TrackedMemory blocks are deallocated.
\*  - DataWriter<Synchronous>::~DataWriter deallocates _memory only when its
\*    location is nullptr, so the allocated buffer stays live; then
\*    Task::result_memory reads _result of the destroyed promise, which was
\*    never assigned: any Memory, an empty one included.
\*  - DataWriter<Asynchronous>::~DataWriter asserts _open == false; where
\*    the assertion is compiled out it calls finalize(), which closes an open
\*    sink.  write_cluster_async then returns true.
destroyed ==
    IF Asynchronous
    THEN {TaskState("refused", {}, FALSE,
                    IF sink_open THEN close_calls + 1 ELSE close_calls, "true")}
         \cup (IF sink_open
               THEN {TaskState("assert_failed", live, sink_open, close_calls, result)}
               ELSE {})
    ELSE {TaskState("refused", live \cap {"cluster"}, sink_open, close_calls, returned) :
            returned \in {"empty", "indeterminate"}}

\* co_return writer.finalize(): the buffer sink hands out _memory and its
\* destructor then frees nothing; the stream sink closes if it is open.  The
\* frame is destroyed at the final suspend point (suspend_never) before
\* Task::result_memory reads _result from it.
finalized ==
    IF Asynchronous
    THEN {TaskState("done", {}, FALSE,
                    IF sink_open THEN close_calls + 1 ELSE close_calls, "true")}
    ELSE {TaskState("done", live \cap {"cluster"}, sink_open, close_calls, returned) :
            returned \in {"cluster", "indeterminate"}}

\* The task moves to one of the given states.
Becomes(states) ==
    \E to \in states :
        /\ pc' = to.pc
        /\ live' = to.live
        /\ sink_open' = to.sink_open
        /\ close_calls' = to.close_calls
        /\ result' = to.result

\* write_cluster_internal from cluster_size_info to the construction of the
\* sink: the buffer sink allocates final_cluster_size bytes, the stream sink
\* calls fn_async_open and keeps its answer in _open.
LayoutCluster ==
    /\ pc = "layout"
    /\ LET info == cluster_size_info(res_count, chunks, paths_info)
       IN  /\ offsets' = info.offsets
           /\ final_cluster_size' = info.final_size
           /\ header' = filled_header(info.final_size, info.offsets, Len(chunks), res_count)
           /\ paths_info' = [paths_info EXCEPT !.offset = info.offsets.paths_data]
           /\ chunks' = placed_chunks(chunks, info.offsets.data)
           /\ memory' = IF Asynchronous THEN <<>> ELSE Fill(info.final_size, Uninit)
    /\ pc' = "headers"
    /\ live' = IF Asynchronous THEN live ELSE live \cup {"cluster"}
    /\ sink_open' = (Asynchronous /\ params.refuse # "open")
    /\ UNCHANGED <<inputs, idx, refs, sizes, metatracker, scratch, writes, reader, ub,
                   close_calls, result, prefixing>>

\* ------------------------------------------------------------- buffer sink

\* memcpy(ptr_add(_memory.location, offset), bytes): the bytes that fall
\* inside the allocation.
memcpy_at(mem, offset, bytes) ==
    [k \in 1..Len(mem) |->
        IF k > offset /\ k <= offset + Len(bytes) THEN bytes[k - offset] ELSE mem[k]]

\* A copy of the buffer sink that runs past the allocation is a heap
\* overflow; the stream sink copies nothing itself.
Overflow(mem, offset, bytes) ==
    IF ~Asynchronous /\ Len(bytes) > 0 /\ offset + Len(bytes) > Len(mem)
    THEN {"buffer_overflow"} ELSE {}

\* The record of one positioned write; index is the metadata record or the
\* resource a data write is for, and 0 for the other kinds.
WriteOp(kind, index, offset, size) ==
    [kind |-> kind, index |-> index, offset |-> offset, size |-> size]

\* Which call the caller's callbacks answer with false.  The buffer sink asks
\* the caller only for blobs without a location and for custom chunks.
Refuses(call) ==
    /\ params.refuse = call
    /\ Asynchronous \/ call \in {"resource", "custom"}

\* Lines 400-420: header, path descriptor and chunk table are written; the
\* scratch resource table and path block are allocated; the used bytes and
\* the tracker are cleared.  A stream sink that refuses the header stops the
\* emitter at the first write.
WriteHeaders ==
    /\ pc = "headers"
    /\ LET chunk_table == Flatten([k \in 1..Len(chunks) |-> ChunkBytes(chunks[k])])
           m1 == memcpy_at(memory, 0, HeaderBytes(header))
           m2 == memcpy_at(m1, offsets.paths_info, PathsBytes(paths_info))
       IN  IF Refuses("header")
           THEN /\ memory' = memory
                /\ writes' = Append(writes, WriteOp("header", 0, 0, SizeofHeader))
           ELSE /\ memory' = memcpy_at(m2, offsets.chunks, chunk_table)
                /\ writes' = writes \o <<WriteOp("header", 0, 0, SizeofHeader),
                                    WriteOp("paths_info", 0, offsets.paths_info, SizeofPaths),
                                    WriteOp("chunks", 0, offsets.chunks, Len(chunk_table))>>
    /\ pack_resources' = <<>>
    /\ paths_data' = Fill(paths_info.size, Uninit)
    /\ paths_offset' = 0
    /\ sizes' = [k \in 1..Len(sizes) |-> 0]
    /\ metatracker' = [k \in 1..Len(metatracker) |-> Constant_U32Max]
    /\ idx' = 0
    /\ Becomes(IF Refuses("header") THEN destroyed
               ELSE resumed("emit", live \cup {"temp_resource_mem", "temp_paths_mem"}))
    /\ UNCHANGED <<inputs, chunks, refs, paths_info, layout, reader, ub, prefixing>>

\* ------------------------------------------------------------ second pass

\* The bytes the caller's custom chunk callback fills a region of n bytes with.
CustomBytes(n) == Fill(n, 200)

\* Lines 441-462: where the metadata of resource idx lands.  A first
\* occurrence takes the used bytes of its metadata chunk; a later one copies
\* the resource that last stored the record.
meta_placement(first_occurrence, meta_chunk_used, data, previous) ==
    IF first_occurrence
    THEN [meta_size |-> data.size, meta_offset |-> meta_chunk_used]
    ELSE [meta_size |-> previous.meta_size, meta_offset |-> previous.meta_offset]

\* Line 456: the used bytes of the metadata chunk after the metadata write.
meta_used_after(meta_chunk_used, data, meta_chunk) ==
    align_to(meta_chunk_used + data.size, meta_chunk.align)

\* Line 479: the used bytes of the data chunk after the blob write.
data_used_after(data_chunk_used, data, data_chunk) ==
    align_to(data_chunk_used + data.size, data_chunk.align)

\* The path copy without the terminator.
copied_path_unterminated(buf, at, path) ==
    [k \in 1..Len(buf) |->
        IF k > at /\ k <= at + Len(path) THEN path[k - at] ELSE buf[k]]

\* Lines 482-491: the path is copied into the scratch path block at
\* paths_offset and a '\0' is stored after it.
copied_path(buf, at, path) ==
    [k \in 1..Len(buf) |->
        IF k > at /\ k <= at + Len(path) THEN path[k - at]
        ELSE IF k = at + Len(path) + 1 THEN 0
        ELSE buf[k]]

\* One iteration of the second pass (lines 423-492) for resource idx.  The
\* buffer sink copies a blob that has a location and calls fn_resource_write
\* for one that has none, whose answer it drops; the stream sink passes
\* every write to the caller and stops the emitter at the first refusal.
EmitResource ==
    /\ pc = "emit"
    /\ idx < res_count
    /\ LET ref == refs[idx + 1]
           data_chunk == chunks[ref.data_chunk + 1]
           meta_chunk == chunks[ref.meta_chunk + 1]
           has_map == Len(metatracker) > 0
           meta_idx == IF has_map THEN write_data.metadata_mapping[idx + 1] ELSE idx
           meta_map_idx == IF has_map THEN metatracker[meta_idx + 1] ELSE Constant_U32Max
           first_occurrence == meta_map_idx = Constant_U32Max
           data == write_data.data[idx + 1]
           path == write_data.paths[idx + 1]
           meta_bytes == Fill(write_data.metadata[meta_idx + 1].size, MetaByte(meta_idx))
           data_bytes == Fill(data.size, DataByte(idx))
           meta_refused == first_occurrence /\ Asynchronous /\ Refuses("metadata")
           data_refused == ~meta_refused /\ Refuses("resource")
           data_written == ~data.null \/ ~data_refused
       IN  /\ \E meta_chunk_used \in (IF first_occurrence THEN SizesRead(sizes, ref.meta_chunk)
                                      ELSE {0}) :
              LET placed == meta_placement(first_occurrence, meta_chunk_used, data,
                                           IF first_occurrence THEN <<>>
                                           ELSE pack_resources[meta_map_idx + 1])
                  meta_at == meta_chunk.offset + meta_chunk_used
                  m1 == IF first_occurrence THEN memcpy_at(memory, meta_at, meta_bytes) ELSE memory
                  after_meta == meta_used_after(meta_chunk_used, data, meta_chunk)
                  s1 == IF first_occurrence THEN SizesWrite(sizes, ref.meta_chunk, after_meta)
                        ELSE sizes
                  DataUsed == IF first_occurrence /\ ref.data_chunk = ref.meta_chunk
                                 /\ ref.data_chunk >= Len(sizes)
                              THEN {after_meta} \cup GarbageSizes
                              ELSE SizesRead(s1, ref.data_chunk)
              IN  \E data_chunk_used \in DataUsed :
                  LET data_at == data_chunk.offset + data_chunk_used
                      res == [chunk |-> ref.data_chunk, meta_chunk |-> ref.meta_chunk,
                              offset |-> data_chunk_used, size |-> data.size,
                              meta_offset |-> placed.meta_offset, meta_size |-> placed.meta_size,
                              path_offset |-> paths_offset, path_size |-> Len(path)]
                  IN  /\ memory' = IF data_written THEN memcpy_at(m1, data_at, data_bytes) ELSE m1
                      /\ writes' = writes
                           \o (IF first_occurrence
                               THEN <<WriteOp("metadata", meta_idx, meta_at, Len(meta_bytes))>> ELSE <<>>)
                           \o (IF meta_refused THEN <<>>
                               ELSE <<WriteOp("resource", idx, data_at, Len(data_bytes))>>)
                      /\ sizes' = SizesWrite(s1, ref.data_chunk,
                                             data_used_after(data_chunk_used, data, data_chunk))
                      /\ pack_resources' = Append(pack_resources, res)
                      /\ ub' = ub \cup SizesOob(sizes, {ref.data_chunk}
                                            \cup (IF first_occurrence THEN {ref.meta_chunk} ELSE {}))
                                  \cup (IF first_occurrence
                                        THEN Overflow(memory, meta_at, meta_bytes) ELSE {})
                                  \cup (IF data_written
                                        THEN Overflow(memory, data_at, data_bytes) ELSE {})
           /\ metatracker' = IF has_map THEN [metatracker EXCEPT ![meta_idx + 1] = idx]
                             ELSE metatracker
           /\ paths_data' = copied_path(paths_data, paths_offset, path)
           /\ paths_offset' = paths_offset + Len(path) + 1
           /\ Becomes(IF meta_refused \/ (Asynchronous /\ data_refused) THEN destroyed
                      ELSE resumed(pc, live))
    /\ idx' = idx + 1
    /\ UNCHANGED <<inputs, chunks, refs, paths_info, layout, reader, prefixing>>

\* The loop of the second pass is over: the custom chunk loop starts at
\* chunks.begin().
EmitDone ==
    /\ pc = "emit"
    /\ idx = res_count
    /\ idx' = 0
    /\ pc' = "custom"
    /\ UNCHANGED <<inputs, planner, layout, scratch, sink, reader, ub, task, prefixing>>

\* Lines 495-501: one turn of `while (it != end && it->type == 0)`; the
\* caller's callback fills the chunk's region and accepts, or refuses and
\* stops the emitter.
WriteCustomChunk ==
    /\ pc = "custom"
    /\ idx < Len(chunks)
    /\ chunks[idx + 1].type = 0
    /\ LET chunk == chunks[idx + 1]
           bytes == CustomBytes(chunk.size)
       IN  /\ memory' = IF Refuses("custom") THEN memory
                         ELSE memcpy_at(memory, chunk.offset, bytes)
           /\ writes' = Append(writes, WriteOp("custom", idx, chunk.offset, chunk.size))
           /\ ub' = ub \cup (IF Refuses("custom") THEN {}
                             ELSE Overflow(memory, chunk.offset, bytes))
    /\ idx' = idx + 1
    /\ Becomes(IF Refuses("custom") THEN destroyed ELSE resumed(pc, live))
    /\ UNCHANGED <<inputs, planner, layout, scratch, reader, prefixing>>

\* The two writes in the order resource table, path block.
final_writes_table_first(paths_len, table_len) ==
    <<WriteOp("resources", 0, offsets.resources, table_len),
      WriteOp("paths_data", 0, offsets.paths_data, paths_len)>>

\* Lines 507-508: the path block is written, then the resource table.
final_writes(paths_len, table_len) ==
    <<WriteOp("paths_data", 0, offsets.paths_data, paths_len),
      WriteOp("resources", 0, offsets.resources, table_len)>>

\* Lines 503-509: the tail of the path block is zeroed, the path block and
\* the resource table are written, the sink is finalized.  A stream sink
\* that refuses the path block stops the emitter before finalize.
WriteFinal ==
    /\ pc = "custom"
    /\ idx = Len(chunks) \/ chunks[idx + 1].type # 0
    /\ LET zeroed == [k \in 1..Len(paths_data) |->
                        IF k > paths_offset THEN 0 ELSE paths_data[k]]
           table == Flatten([k \in 1..Len(pack_resources) |-> ResourceBytes(pack_resources[k])])
           m1 == memcpy_at(memory, offsets.paths_data, zeroed)
       IN  /\ paths_data' = zeroed
           /\ memory' = memcpy_at(m1, offsets.resources, table)
           /\ writes' = writes
                \o (IF Refuses("final") THEN SubSeq(final_writes(Len(zeroed), Len(table)), 1, 1)
                    ELSE final_writes(Len(zeroed), Len(table)))
           /\ ub' = ub \cup Overflow(memory, offsets.paths_data, zeroed)
                       \cup Overflow(memory, offsets.resources, table)
    /\ Becomes(IF Refuses("final") THEN destroyed ELSE finalized)
    /\ UNCHANGED <<inputs, idx, planner, layout, pack_resources, paths_offset, reader, prefixing>>

\* Undefined behaviour (an access past a vector or past the buffer) may also
\* stop the process where a hardened heap detects it.
Crash ==
    /\ pc \in {"estimate", "layout", "headers", "emit", "custom"}
    /\ ub # {}
    /\ pc' = "crashed"
    /\ UNCHANGED <<inputs, idx, planner, layout, scratch, sink, reader, ub, task, prefixing>>

\* ------------------------------------------------------------- read_header

\* A field too large for the model's integers; it stands for the largest
\* value of the field's type.
Huge == 2147483647

\* The little-endian value of the w bytes at a zero based offset.  Bytes
\* past the input or never written give no value.
NoValue == -2

LEValue(bytes, offset, w) ==
    IF offset < 0 \/ offset + w > Len(bytes) THEN NoValue
    ELSE IF \E k \in 1..w : bytes[offset + k] = Uninit THEN NoValue
    ELSE IF (\E k \in 5..w : bytes[offset + k] # 0) \/ (w >= 4 /\ bytes[offset + 4] >= 128) THEN Huge
    ELSE SumSeq([k \in 1..(IF w > 4 THEN 4 ELSE w) |-> bytes[offset + k] * Pow256(k - 1)])

\* (Constant_MaxSupportedPackSize - offset) < size, without overflow.
PackTooLarge(offset, size) ==
    \/ offset = Huge /\ size >= 1
    \/ size = Huge /\ offset >= 1

\* ptr_distance: std::abs of the difference.
ptr_distance(from, to) == IF to >= from THEN to - from ELSE from - to

\* The HailstormHeader at the start of the bytes.
DecodedHeader(bytes) ==
    [magic |-> LEValue(bytes, 0, 4),
     header_version |-> LEValue(bytes, 4, 4),
     header_size |-> LEValue(bytes, 8, 8),
     offset_next |-> LEValue(bytes, 16, 8),
     offset_data |-> LEValue(bytes, 24, 8),
     count_chunks |-> LEValue(bytes, 36, 4),
     count_resources |-> LEValue(bytes, 40, 4)]

\* The view is taken as complete sixteen bytes early.
incomplete_header_short(size, header_size) == size + SizeofHeaderBase < header_size

\* Line 65: the view is shorter than the header region the header declares.
incomplete_header(size, header_size) == size < header_size

\* The end of the last byte read_header reads from data.location: nothing
\* of a null or short view, the base header of a rejected one, the whole
\* HailstormHeader (line 74), and for a pack with chunks the path descriptor
\* (line 82) and the offset and size of the last chunk (lines 90-91).
read_extent(bytes, size, is_null) ==
    IF is_null \/ size < SizeofHeaderBase THEN 0
    ELSE
    LET base == DecodedHeader(bytes)
    IN  IF \/ base.magic # Constant_HailstormMagic
           \/ base.header_version # Constant_HailstormHeaderVersionV0
           \/ base.header_size >= Constant_1GiB
           \/ incomplete_header(size, base.header_size)
        THEN SizeofHeaderBase
        ELSE IF base.count_chunks = 0 THEN SizeofHeader
        ELSE SizeofHeader + SizeofPaths + (base.count_chunks - 1) * SizeofChunk + 16

\* read_header on a view of size bytes (is_null: data.location == nullptr);
\* bytes is the memory at data.location, which may go on behind the view;
\* out is the caller's HailstormData.  Spans and views are (offset, count)
\* pairs relative to data.location.
read_header(bytes, size, is_null, out) ==
    IF is_null \/ size < SizeofHeaderBase
    THEN [result |-> "E_InvalidPackData", out |-> out]
    ELSE
    LET base == DecodedHeader(bytes)
    IN  IF \/ base.magic # Constant_HailstormMagic
           \/ base.header_version # Constant_HailstormHeaderVersionV0
           \/ base.header_size >= Constant_1GiB
        THEN [result |-> "E_InvalidPackData", out |-> out]
        ELSE IF incomplete_header(size, base.header_size)
        THEN [result |-> "E_IncompleteHeaderData", out |-> out]
        ELSE
        LET out1 == [out EXCEPT !.header = base]
            paths == [offset |-> LEValue(bytes, SizeofHeader, 4),
                      size |-> LEValue(bytes, SizeofHeader + 4, 4)]
            chunks_ptr == SizeofHeader + SizeofPaths
            resources_ptr == chunks_ptr + base.count_chunks * SizeofChunk
            resources_end == resources_ptr + base.count_resources * SizeofResource
            out2 == [out1 EXCEPT !.paths = paths,
                                 !.chunks = [offset |-> chunks_ptr, count |-> base.count_chunks],
                                 !.resources = [offset |-> resources_ptr,
                                                count |-> base.count_resources]]
            last_chunk == chunks_ptr + (base.count_chunks - 1) * SizeofChunk
        IN  IF base.count_chunks = 0
            THEN [result |-> "E_EmptyPack", out |-> out1]
            ELSE IF PackTooLarge(LEValue(bytes, last_chunk, 8), LEValue(bytes, last_chunk + 8, 8))
            THEN [result |-> "E_LargePackNotSupported", out |-> out2]
            ELSE [result |-> "Success",
                  out |-> [out2 EXCEPT !.paths_data =
                             IF paths.size <= ptr_distance(resources_end, size)
                             THEN [null |-> FALSE, location |-> paths.offset, size |-> paths.size]
                             ELSE [null |-> TRUE, location |-> 0, size |-> 0]]]

\* The caller passes the buffer write_cluster returned to read_header.
ReadHeader ==
    /\ pc = "done"
    /\ result = "cluster"
    /\ LET r == read_header(memory, Len(memory), FALSE, out_hailstorm)
       IN  /\ read_result' = r.result
           /\ out_hailstorm' = r.out
    /\ pc' = "read"
    /\ UNCHANGED <<inputs, idx, planner, layout, scratch, sink, ub, task, prefixing>>

\* ----------------------------------------------------------- specification

Next ==
    \/ PrepareClusterInfo
    \/ EstimateStep
    \/ EstimateAbort
    \/ FinishPrepare
    \/ LayoutCluster
    \/ WriteHeaders
    \/ EmitResource
    \/ EmitDone
    \/ WriteCustomChunk
    \/ WriteFinal
    \/ Crash
    \/ ReadHeader

Spec == Init /\ [][Next]_vars

\* ------------------------------------------- read_header on caller inputs

\* A cluster image of nc chunks of 8 bytes and rc resources with empty
\* paths, laid out by the writer's layout functions, all payload zero.
ClusterImage(nc, rc) ==
    LET cs == [k \in 1..nc |-> [MixedChunk(8, 8) EXCEPT !.count_entries = 1]]
        paths == [offset |-> 0, size |-> align_to(8 + rc, 8)]
        info == cluster_size_info(rc, cs, paths)
        offs == info.offsets
        placed == placed_chunks(cs, offs.data)
        res == [chunk |-> 0, meta_chunk |-> 0, offset |-> 0, size |-> 0, meta_offset |-> 0,
                meta_size |-> 0, path_offset |-> 0, path_size |-> 0]
        table == [k \in 1..(rc * SizeofResource) |->
                     IF ResourceBytes(res)[((k - 1) % SizeofResource) + 1] = Uninit THEN 0
                     ELSE ResourceBytes(res)[((k - 1) % SizeofResource) + 1]]
        m0 == Fill(Max(info.final_size, offs.paths_data + paths.size), 0)
        m1 == memcpy_at(m0, 0, HeaderBytes(filled_header(info.final_size, offs, nc, rc)))
        m2 == memcpy_at(m1, offs.paths_info, PathsBytes([paths EXCEPT !.offset = offs.paths_data]))
        m3 == memcpy_at(m2, offs.chunks, Flatten([k \in 1..nc |-> ChunkBytes(placed[k])]))
    IN  memcpy_at(m3, offs.resources, table)

\* What a caller may have changed in an image: nothing, the magic, the
\* header version, the header_size (down to the base header, to the V1
\* header, up to 1 GiB), or the last chunk's offset (beyond any pack).
Tamperings == {"none", "magic", "version", "size16", "size64", "size1GiB", "last_chunk"}

TamperedImage(image, nc, how) ==
    CASE how = "none" -> image
      [] how = "magic" -> memcpy_at(image, 0, LE(Constant_HailstormHeaderVersionV0, 4))
      [] how = "version" -> memcpy_at(image, 4, LE(Constant_HailstormMagic, 4))
      [] how = "size16" -> memcpy_at(image, 8, LE(SizeofHeaderBase, 8))
      [] how = "size64" -> memcpy_at(image, 8, LE(SizeofHeader, 8))
      [] how = "size1GiB" -> memcpy_at(image, 8, LE(Constant_1GiB, 8))
      [] how = "last_chunk" ->
            IF nc = 0 THEN image
            ELSE memcpy_at(image, SizeofHeader + SizeofPaths + (nc - 1) * SizeofChunk,
                           Fill(8, 255))

\* The memory a caller holds: an image, possibly tampered with.
ReadImages ==
    {TamperedImage(ClusterImage(nc, rc), nc, how) :
        nc \in 0..MaxReadChunks, rc \in 0..MaxReadRes, how \in Tamperings}

\* The caller passes a view of the first size bytes of its memory, or a
\* null view.
ReadInit ==
    /\ write_data = [paths |-> <<>>, data |-> <<>>, metadata |-> <<>>, metadata_mapping |-> <<>>]
    /\ params = [initial_chunks |-> <<>>, select |-> "default", mode |-> "Synchronous",
                 refuse |-> "none"]
    /\ pc = "input"
    /\ idx = 0
    /\ chunks = <<>>
    /\ refs = <<>>
    /\ sizes = <<>>
    /\ metatracker = <<>>
    /\ paths_info = [offset |-> 0, size |-> 0]
    /\ offsets = NoOffsets
    /\ header = NoHeader
    /\ final_cluster_size = 0
    /\ pack_resources = <<>>
    /\ paths_data = <<>>
    /\ paths_offset = 0
    /\ memory \in ReadImages
    /\ writes = <<>>
    /\ out_hailstorm = NoHailstormData
    /\ read_result = "none"
    /\ \E size \in 0..Len(memory) :
          read_data \in {[null |-> FALSE, size |-> size]}
                            \cup (IF size = 0 THEN {[null |-> TRUE, size |-> 0]} ELSE {})
    /\ live = {}
    /\ sink_open = FALSE
    /\ close_calls = 0
    /\ result = "none"
    /\ prefix = <<>>
    /\ resources = <<>>
    /\ paths_start = <<>>
    /\ ex_paths_end = 0
    /\ resource_idx = 0
    /\ ub = {}

\* What lies at data.location: the view's bytes, and behind them either
\* the rest of the caller's memory or memory that happens to be zero.
HeapsBehind(mem, size) == {mem, SubSeq(mem, 1, size) \o Fill(Len(mem) - size, 0)}

\* read_header on the caller's view.  A read behind the view is out of
\* range and finds whatever lies there.
ReadInput ==
    /\ pc = "input"
    /\ \E heap \in HeapsBehind(memory, read_data.size) :
          LET r == read_header(heap, read_data.size, read_data.null, out_hailstorm)
          IN  /\ read_result' = r.result
              /\ out_hailstorm' = r.out
              /\ ub' = IF read_extent(heap, read_data.size, read_data.null) > read_data.size
                       THEN ub \cup {"read_out_of_range"} ELSE ub
    /\ pc' = "classified"
    /\ UNCHANGED <<inputs, idx, planner, layout, scratch, sink, task, prefixing>>

\* A read behind the view may also hit an unmapped page.
ReadFault ==
    /\ pc = "input"
    /\ \E heap \in HeapsBehind(memory, read_data.size) :
          read_extent(heap, read_data.size, read_data.null) > read_data.size
    /\ ub' = ub \cup {"read_out_of_range"}
    /\ pc' = "crashed"
    /\ UNCHANGED <<inputs, idx, planner, layout, scratch, sink, reader, task, prefixing>>

ReadNext == ReadInput \/ ReadFault

ReadSpec == ReadInit /\ [][ReadNext]_vars

\* ------------------------------------------- sinks and refusing callbacks

\* Blob views for the sink runs: one with a location, one without.
SinkViews == {[size |-> 4, align |-> 4, null |-> FALSE],
              [size |-> 4, align |-> 4, null |-> TRUE]}

\* initial_chunks for the sink runs: none, AppSpecific chunks before a mixed
\* chunk, and an AppSpecific chunk between two mixed chunks.
SinkChunkLists ==
    { <<>>,
      <<TypedChunk(0, 8, 8), MixedChunk(64, 8)>>,
      <<TypedChunk(0, 8, 8), TypedChunk(0, 8, 8), MixedChunk(64, 8)>>,
      <<MixedChunk(64, 8), TypedChunk(0, 8, 8), MixedChunk(64, 8)>> }

\* The calls a caller's callbacks may refuse: fn_async_open, the first
\* header write, a metadata write, a blob write, a custom chunk write, the
\* write of the path block.
Refusals == {"none", "open", "header", "metadata", "resource", "custom", "final"}

\* write_cluster and write_cluster_async on n resources with empty paths,
\* with their own metadata records or all sharing record 0, with the default
\* heuristics.
SinkInit ==
    /\ \E n \in 0..MaxRes :
        write_data \in { [paths |-> [i \in 1..n |-> <<>>], data |-> d,
                          metadata |-> [k \in 1..n |-> MetaView(0, k)],
                          metadata_mapping |-> mp] :
                            d \in [1..n -> SinkViews], mp \in {<<>>, [i \in 1..n |-> 0]} }
    /\ params \in [initial_chunks : SinkChunkLists, select : {"default"},
                    mode : {"Synchronous", "Asynchronous"}, refuse : Refusals]
    /\ params.mode = "Synchronous" => params.refuse \in {"none", "resource", "custom"}
    /\ pc = "start"
    /\ idx = 0
    /\ chunks = <<>>
    /\ refs = <<>>
    /\ sizes = <<>>
    /\ metatracker = <<>>
    /\ paths_info = [offset |-> 0, size |-> 0]
    /\ offsets = NoOffsets
    /\ header = NoHeader
    /\ final_cluster_size = 0
    /\ pack_resources = <<>>
    /\ paths_data = <<>>
    /\ paths_offset = 0
    /\ memory = <<>>
    /\ writes = <<>>
    /\ out_hailstorm = NoHailstormData
    /\ read_result = "none"
    /\ read_data = [null |-> FALSE, size |-> 0]
    /\ live = {}
    /\ sink_open = FALSE
    /\ close_calls = 0
    /\ result = "none"
    /\ prefix = <<>>
    /\ resources = <<>>
    /\ paths_start = <<>>
    /\ ex_paths_end = 0
    /\ resource_idx = 0
    /\ ub = {}

\* The steps of write_cluster_internal.  With the default heuristics on
\* mixed chunks no assertion of the first pass can fail.
SinkNext ==
    \/ PrepareClusterInfo
    \/ EstimateStep
    \/ FinishPrepare
    \/ LayoutCluster
    \/ WriteHeaders
    \/ EmitResource
    \/ EmitDone
    \/ WriteCustomChunk
    \/ WriteFinal
    \/ Crash

SinkSpec == SinkInit /\ [][SinkNext]_vars

\* ------------------------------------------ the first pass on large blobs

\* A blob that, with any metadata record, is larger than the default chunk.
LargeView == [size |-> 32 * Constant_1MiB, align |-> 8, null |-> FALSE]

\* prepare_cluster_info with the default heuristics on lists that may hold
\* a large blob.
PlanInit ==
    /\ \E n \in 0..MaxRes :
        write_data \in { [paths |-> [i \in 1..n |-> <<>>], data |-> d,
                          metadata |-> [k \in 1..n |-> MetaView(0, k)],
                          metadata_mapping |-> mp] :
                            d \in [1..n -> DataViews \cup {LargeView}],
                            mp \in {<<>>} \cup [1..n -> 0..(n - 1)] }
    /\ params \in [initial_chunks : InitialChunkLists, select : {"default"},
                    mode : {"Synchronous"}, refuse : {"none"}]
    /\ ParamsAccepted(write_data, params)
    /\ pc = "start"
    /\ idx = 0
    /\ chunks = <<>>
    /\ refs = <<>>
    /\ sizes = <<>>
    /\ metatracker = <<>>
    /\ paths_info = [offset |-> 0, size |-> 0]
    /\ offsets = NoOffsets
    /\ header = NoHeader
    /\ final_cluster_size = 0
    /\ pack_resources = <<>>
    /\ paths_data = <<>>
    /\ paths_offset = 0
    /\ memory = <<>>
    /\ writes = <<>>
    /\ out_hailstorm = NoHailstormData
    /\ read_result = "none"
    /\ read_data = [null |-> FALSE, size |-> 0]
    /\ live = {}
    /\ sink_open = FALSE
    /\ close_calls = 0
    /\ result = "none"
    /\ prefix = <<>>
    /\ resources = <<>>
    /\ paths_start = <<>>
    /\ ex_paths_end = 0
    /\ resource_idx = 0
    /\ ub = {}

\* The steps of prepare_cluster_info.
PlanNext ==
    \/ PrepareClusterInfo
    \/ EstimateStep
    \/ EstimateAbort
    \/ FinishPrepare

PlanSpec == PlanInit /\ [][PlanNext]_vars

\* ---------------------------------------------------- prefix_resource_paths

\* The path of resource i (zero based) of length len, every byte different.
PrefixedPath(i, len) == [k \in 1..len |-> 96 + 8 * i + k]

\* The prefix of length len.
PrefixOf(len) == [k \in 1..len |-> 64 + k]

RECURSIVE paths_size(_)
\* estimate_cluster_chunks: every path adds its length and one to
\* paths_info.size.
paths_size(paths) ==
    IF paths = <<>> THEN 0 ELSE Len(Head(paths)) + 1 + paths_size(Tail(paths))

RECURSIVE laid_paths(_, _, _)
\* The path block the writer fills: the paths copied one after the other
\* (lines 482-491), the rest zeroed (line 504).
laid_paths(buf, at, paths) ==
    IF paths = <<>> THEN [k \in 1..Len(buf) |-> IF k > at THEN 0 ELSE buf[k]]
    ELSE laid_paths(copied_path(buf, at, Head(paths)), at + Len(Head(paths)) + 1, Tail(paths))

\* The path fields of the resource table the writer fills for the paths.
laid_resources(paths) ==
    [i \in 1..Len(paths) |->
        [path_offset |-> paths_size(SubSeq(paths, 1, i - 1)), path_size |-> Len(paths[i])]]

\* The size of the path block alone.
prefixed_resource_paths_size_unprefixed(info, count_resources, pre) == info.size

\* Lines 538-546.
prefixed_resource_paths_size(info, count_resources, pre) ==
    info.size + count_resources * Len(pre)

\* How many zero bytes the scan for the end of the paths finds in front of
\* the buffer when the whole block is zero: it reads paths_start[-1] and on.
Underruns == {0, 1}

\* Lines 568-576: the offset at which `while (paths_end[-1] == '\0')` stops.
scanned_end(bytes, size) ==
    IF \E k \in 1..size : bytes[k] # 0
    THEN {CHOOSE k \in 1..size : bytes[k] # 0 /\ \A j \in (k + 1)..size : bytes[j] = 0}
    ELSE {0 - j : j \in Underruns}

\* A store at a zero based offset; one outside the buffer does not land in it.
stored(bytes, at, v) ==
    IF at >= 0 /\ at < Len(bytes) THEN [bytes EXCEPT ![at + 1] = v] ELSE bytes

RECURSIVE forward_copy(_, _, _, _)
\* A memcpy that copies from the low addresses up, byte by byte.
forward_copy(bytes, dst, src, n) ==
    IF n = 0 THEN bytes
    ELSE forward_copy(stored(bytes, dst, bytes[src + 1]), dst + 1, src + 1, n - 1)

\* A memcpy that reads the source before it writes.
moved_copy(bytes, dst, src, n) ==
    [k \in 1..Len(bytes) |->
        IF k > dst /\ k <= dst + n THEN bytes[k - dst + src] ELSE bytes[k]]

\* memcpy regions that overlap without being the same.
overlapping(dst, src, n) == n > 0 /\ dst # src /\ dst < src + n /\ src < dst + n

\* std::memcpy(dst, src, n) inside one buffer: on overlapping regions the
\* behaviour is undefined, and the library either copies as memmove does or
\* copies upwards over its own source.
memcpy_outcomes(bytes, dst, src, n) ==
    { moved_copy(bytes, dst, src, n) }
        \cup (IF overlapping(dst, src, n) THEN { forward_copy(bytes, dst, src, n) } ELSE {})

\* A caller holds a path block and resource table laid out by the writer,
\* in a buffer with room for the prefixes or one byte short of it.
PrefixInit ==
    /\ \E n \in 0..MaxRes :
        \E lens \in [1..n -> 0..MaxPrefixedPathLen] :
        \E plen \in 0..MaxPrefixLen :
            LET paths == [i \in 1..n |-> PrefixedPath(i - 1, lens[i])]
                size == align_to(8 + paths_size(paths), 8)
            IN  /\ write_data = [paths |-> paths, data |-> <<>>, metadata |-> <<>>,
                                 metadata_mapping |-> <<>>]
                /\ prefix = PrefixOf(plen)
                /\ paths_info = [offset |-> 0, size |-> size]
                /\ resources = laid_resources(paths)
                /\ \E room \in {n * plen} \cup (IF n * plen > 0 THEN {n * plen - 1} ELSE {}) :
                      paths_start = laid_paths(Fill(size, Uninit), 0, paths) \o Fill(room, Uninit)
    /\ params = [initial_chunks |-> <<>>, select |-> "default", mode |-> "Synchronous",
                 refuse |-> "none"]
    /\ pc = "prefix"
    /\ idx = 0
    /\ chunks = <<>>
    /\ refs = <<>>
    /\ sizes = <<>>
    /\ metatracker = <<>>
    /\ offsets = NoOffsets
    /\ header = NoHeader
    /\ final_cluster_size = 0
    /\ pack_resources = <<>>
    /\ paths_data = <<>>
    /\ paths_offset = 0
    /\ memory = <<>>
    /\ writes = <<>>
    /\ out_hailstorm = NoHailstormData
    /\ read_result = "none"
    /\ read_data = [null |-> FALSE, size |-> 0]
    /\ live = {}
    /\ sink_open = FALSE
    /\ close_calls = 0
    /\ result = "none"
    /\ ex_paths_end = 0
    /\ resource_idx = 0
    /\ ub = {}

\* Lines 555-576: the size test, then the scan for the end of the paths.
PrefixBegin ==
    /\ pc = "prefix"
    /\ LET count_resources == Len(resources)
           size_extended_paths == prefixed_resource_paths_size(paths_info, count_resources, prefix)
       IN  IF size_extended_paths > Len(paths_start)
           THEN /\ result' = "false"
                /\ pc' = "prefixed"
                /\ UNCHANGED <<ex_paths_end, resource_idx, ub>>
           ELSE /\ \E paths_end \in scanned_end(paths_start, paths_info.size) :
                      /\ ex_paths_end' = paths_end + Len(prefix) * count_resources
                      /\ ub' = ub \cup (IF paths_end <= 0 THEN {"read_out_of_range"} ELSE {})
                /\ resource_idx' = count_resources
                /\ pc' = "prefix_loop"
                /\ UNCHANGED result
    /\ UNCHANGED <<inputs, idx, planner, layout, scratch, sink, reader, live, sink_open,
                   close_calls, prefix, resources, paths_start>>

\* Lines 580-594: one turn of the loop, for resources[resource_idx - 1].
PrefixResource ==
    /\ pc = "prefix_loop"
    /\ ex_paths_end > 0 /\ resource_idx > 0
    /\ LET res == resources[resource_idx]
           terminated == stored(paths_start, ex_paths_end, 0)
           path_at == ex_paths_end - res.path_size
           prefix_at == path_at - Len(prefix)
       IN  /\ \E copied \in memcpy_outcomes(terminated, path_at, res.path_offset, res.path_size) :
                paths_start' = [k \in 1..Len(copied) |->
                                  IF k > prefix_at /\ k <= prefix_at + Len(prefix)
                                  THEN prefix[k - prefix_at] ELSE copied[k]]
           /\ resources' = [resources EXCEPT ![resource_idx] =
                               [path_offset |-> ptr_distance(0, prefix_at),
                                path_size |-> res.path_size + Len(prefix)]]
           /\ ex_paths_end' = prefix_at - 1
           /\ ub' = ub \cup (IF prefix_at < 0 THEN {"buffer_overflow"} ELSE {})
                       \cup (IF overlapping(path_at, res.path_offset, res.path_size)
                             THEN {"memcpy_overlap"} ELSE {})
    /\ resource_idx' = resource_idx - 1
    /\ pc' = pc
    /\ UNCHANGED <<inputs, idx, planner, layout, scratch, sink, reader, task, prefix>>

\* Lines 596-598: the loop is over; the assertion, where it is kept, stops
\* the process when the walk did not end at paths_start.
PrefixReturn ==
    /\ pc = "prefix_loop"
    /\ ~(ex_paths_end > 0 /\ resource_idx > 0)
    /\ \/ /\ result' = IF resource_idx = 0 /\ ex_paths_end + 1 = 0 THEN "true" ELSE "false"
          /\ pc' = "prefixed"
       \/ /\ ex_paths_end + 1 # 0
          /\ pc' = "assert_failed"
          /\ UNCHANGED result
    /\ UNCHANGED <<inputs, idx, planner, layout, scratch, sink, reader, live, sink_open,
                   close_calls, prefixing, ub>>

PrefixNext == PrefixBegin \/ PrefixResource \/ PrefixReturn

PrefixSpec == PrefixInit /\ [][PrefixNext]_vars

\* ------------------------------------------------------ the written cluster

\* write_cluster_internal ran to its co_return: memory holds the cluster.
Written == pc \in {"done", "read"}

\* The tables of the cluster, decoded from the bytes of the buffer by the
\* layout of hailstorm.hxx.
ClusterHeader == DecodedHeader(memory)

ClusterPaths ==
    [offset |-> LEValue(memory, SizeofHeader, 4), size |-> LEValue(memory, SizeofHeader + 4, 4)]

ClusterChunk(k) ==
    LET at == SizeofHeader + SizeofPaths + k * SizeofChunk
    IN  [offset |-> LEValue(memory, at, 8), size |-> LEValue(memory, at + 8, 8),
         align |-> LEValue(memory, at + 16, 4), type |-> memory[at + 21] % 4,
         count_entries |-> LEValue(memory, at + 28, 4)]

ClusterResource(i) ==
    LET at == SizeofHeader + SizeofPaths + ClusterHeader.count_chunks * SizeofChunk
                  + i * SizeofResource
    IN  [chunk |-> LEValue(memory, at, 4), meta_chunk |-> LEValue(memory, at + 4, 4),
         offset |-> LEValue(memory, at + 8, 4), size |-> LEValue(memory, at + 12, 4),
         meta_offset |-> LEValue(memory, at + 20, 4), meta_size |-> LEValue(memory, at + 24, 4),
         path_offset |-> LEValue(memory, at + 28, 4), path_size |-> LEValue(memory, at + 32, 2)]

ChunkIds == 0..(ClusterHeader.count_chunks - 1)

ResourceIds == 0..(ClusterHeader.count_resources - 1)

\* The metadata record of resource i, and whether i is the first resource
\* of its record.
MetaIndexOf(i) ==
    IF write_data.metadata_mapping = <<>> THEN i ELSE write_data.metadata_mapping[i + 1]

FirstOccurrence(i) == \A j \in 0..(i - 1) : MetaIndexOf(j) # MetaIndexOf(i)

\* ------------------------------------------------------------------ claims

\* C1: read_header on the bytes write_cluster produced returns Success, a
\* chunk span as long as the chunk list, a resource span as long as the
\* resource list, and a path-data view as long as the path descriptor says.
C1_RoundTrip ==
    pc = "read" =>
        /\ read_result = "Success"
        /\ out_hailstorm.header.count_chunks = Len(chunks)
        /\ out_hailstorm.chunks.count = Len(chunks)
        /\ out_hailstorm.header.count_resources = res_count
        /\ out_hailstorm.resources.count = res_count
        /\ ~out_hailstorm.paths_data.null
        /\ out_hailstorm.paths_data.size = out_hailstorm.paths.size
        /\ out_hailstorm.paths.size = paths_info.size

C1_Witness ==
    /\ pc = "read"
    /\ read_result = "Success"
    /\ res_count >= 2
    /\ write_data.metadata_mapping # <<>>
    /\ params.initial_chunks # <<>>
    /\ out_hailstorm.chunks.count >= 2

\* C2 as claimed: header_size equals offset_data, and both equal the offset
\* of the first byte of chunk 0's payload.
C2_HeaderSizeIsDataOffset ==
    Written =>
        /\ ClusterHeader.header_size = ClusterHeader.offset_data
        /\ ClusterHeader.offset_data = ClusterChunk(0).offset

\* C2 amended: header_size is the offset of the path block (the end of the
\* resource table rounded up to 8), offset_data is the offset of chunk 0's
\* payload, and header_size is below offset_data.
C2_HeaderSizeIsPathsOffset ==
    Written =>
        /\ ClusterHeader.header_size = ClusterPaths.offset
        /\ ClusterHeader.header_size =
              align_to(SizeofHeader + SizeofPaths + Len(chunks) * SizeofChunk
                           + res_count * SizeofResource, 8)
        /\ ClusterHeader.offset_data = ClusterChunk(0).offset
        /\ ClusterHeader.header_size < ClusterHeader.offset_data

C2_Witness ==
    /\ Written
    /\ res_count >= 1
    /\ ClusterHeader.count_chunks >= 2
    /\ ClusterHeader.header_size < ClusterHeader.offset_data

\* C3: offset_next is the offset of the first payload byte plus the sum of
\* the chunks' sizes rounded up to 8, the chunks lie back to back in
\* declaration order, and offset_next is at least the end of the last chunk.
C3_TotalSizeCoversChunks ==
    Written =>
        LET last == ClusterHeader.count_chunks - 1
        IN  /\ ClusterHeader.offset_next =
                  ClusterChunk(0).offset
                      + SumSeq([k \in 1..(last + 1) |-> align_to(ClusterChunk(k - 1).size, 8)])
            /\ \A k \in 0..(last - 1) :
                  ClusterChunk(k + 1).offset
                      = ClusterChunk(k).offset + align_to(ClusterChunk(k).size, 8)
            /\ ClusterHeader.offset_next >= ClusterChunk(last).offset + ClusterChunk(last).size

\* C4: the regions lie in the order header, path descriptor, chunk table,
\* resource table, path block, payloads, and none overlaps the next.
C4_RegionsDoNotOverlap ==
    Len(memory) > 0 =>
        /\ offsets.paths_info = SizeofHeader
        /\ offsets.paths_info + SizeofPaths <= offsets.chunks
        /\ offsets.chunks + Len(chunks) * SizeofChunk <= offsets.resources
        /\ offsets.resources + SizeofResource * res_count <= offsets.paths_data
        /\ offsets.paths_data + paths_info.size <= offsets.data

\* C5: every chunk offset is a multiple of 8, and the offsets increase
\* strictly with each chunk ending at or before the next one starts.
C5_ChunkOffsetsAligned ==
    Written =>
        /\ \A k \in ChunkIds : ClusterChunk(k).offset % 8 = 0
        /\ \A k \in ChunkIds : k + 1 \in ChunkIds =>
              /\ ClusterChunk(k).offset < ClusterChunk(k + 1).offset
              /\ ClusterChunk(k).offset + ClusterChunk(k).size <= ClusterChunk(k + 1).offset

\* C6: every resource's blob and metadata end inside their chunks.
C6_ResourcesFitChunks ==
    Written =>
        \A i \in ResourceIds :
            LET r == ClusterResource(i)
            IN  /\ r.offset + r.size <= ClusterChunk(r.chunk).size
                /\ r.meta_offset + r.meta_size <= ClusterChunk(r.meta_chunk).size

\* C7: a resource that is the first of its metadata record is recorded with
\* meta_size equal to the size of that record.
C7_MetaSizeIsRecordSize ==
    Written =>
        \A i \in ResourceIds :
            FirstOccurrence(i) =>
                ClusterResource(i).meta_size = write_data.metadata[MetaIndexOf(i) + 1].size

\* C8: with a mapping, resources of one record have the same meta_chunk,
\* meta_offset and meta_size, and the record is written exactly once.
C8_SharedMetadata ==
    (Written /\ write_data.metadata_mapping # <<>>) =>
        /\ \A i, j \in ResourceIds :
              MetaIndexOf(i) = MetaIndexOf(j) =>
                  LET ri == ClusterResource(i)
                      rj == ClusterResource(j)
                  IN  <<ri.meta_chunk, ri.meta_offset, ri.meta_size>>
                          = <<rj.meta_chunk, rj.meta_offset, rj.meta_size>>
        /\ \A i \in ResourceIds :
              Cardinality({w \in 1..Len(writes) :
                              writes[w].kind = "metadata" /\ writes[w].index = MetaIndexOf(i)}) = 1

\* C9: every blob offset is a multiple of the blob's align, every metadata
\* offset is a multiple of 8, and the blob's align is at most its chunk's.
C9_ResourceAlignment ==
    Written =>
        \A i \in ResourceIds :
            LET r == ClusterResource(i)
                data == write_data.data[i + 1]
            IN  /\ r.offset % data.align = 0
                /\ r.meta_offset % 8 = 0
                /\ data.align <= ClusterChunk(r.chunk).align

\* C10: every chunk's payload starts at a multiple of the chunk's align.
C10_ChunkPayloadAligned ==
    Written => \A k \in ChunkIds : ClusterChunk(k).offset % ClusterChunk(k).align = 0

ReadView == SubSeq(memory, 1, read_data.size)

ValidCluster ==
    /\ read_header(memory, Len(memory), FALSE, NoHailstormData).result = "Success"
    /\ DecodedHeader(memory).header_size = LEValue(memory, SizeofHeader, 4)

C13_TruncatedIsIncomplete ==
    (pc = "classified" /\ ValidCluster /\ ~read_data.null
        /\ read_data.size < DecodedHeader(memory).header_size)
    => read_result = "E_IncompleteHeaderData"

\* C13 amended: a valid cluster truncated to a length from 16 to
\* header_size - 1 is IncompleteHeaderData, and truncated to fewer than 16
\* bytes it is InvalidPackData.
C13_TruncatedIsIncompleteOrInvalid ==
    (pc = "classified" /\ ValidCluster /\ ~read_data.null
        /\ read_data.size < DecodedHeader(memory).header_size)
    => read_result = IF read_data.size < SizeofHeaderBase THEN "E_InvalidPackData"
                     ELSE "E_IncompleteHeaderData"

C13_Witness ==
    /\ pc = "classified"
    /\ ValidCluster
    /\ ~read_data.null
    /\ read_data.size = DecodedHeader(memory).header_size - 1
    /\ DecodedHeader(memory).count_resources >= 1
    /\ read_result = "E_IncompleteHeaderData"

\* C14: a call of read_header that returns anything but Success leaves the
\* caller's out_hailstorm as it was.
C14_FailureLeavesOutput ==
    [][(pc = "input" /\ pc' = "classified" /\ read_result' # "Success")
          => out_hailstorm' = out_hailstorm]_vars

\* ------------------------------------------------ sinks: the caller's view

\* write_cluster or write_cluster_async returned to its caller.
Returned == pc \in {"done", "refused"}

\* The buffer sink called fn_resource_write for an emitted blob without a
\* location and got false, or a custom chunk write was refused.
SyncRefused ==
    \/ pc = "refused"
    \/ /\ params.refuse = "resource"
       /\ \E i \in 1..Len(pack_resources) : write_data.data[i].null

\* C15: a synchronous write in which the resource-write or the custom-chunk
\* callback returned false returns an empty Memory.
C15_RefusedWriteReturnsEmpty ==
    (~Asynchronous /\ Returned /\ SyncRefused) => result = "empty"

\* C16: write_cluster_async returns false when a sink callback refused a
\* write and true when every step was accepted.
C16_AsyncReturnsAcceptance ==
    (Asynchronous /\ Returned) => result = IF pc = "refused" THEN "false" ELSE "true"

\* C17: a stream sink that was opened is never destroyed open (its
\* destructor's assertion never fails), and when write_cluster_async has
\* returned fn_async_close was called exactly once.
C17_ClosedBeforeDestroyed ==
    (Asynchronous /\ params.refuse # "open")
    => /\ pc # "assert_failed"
       /\ Returned => (close_calls = 1 /\ ~sink_open)

\* C18: after a refused write no block is live; after a successful write
\* the only live block is the buffer the buffer sink handed out.
C18_NoBlockLeftLive ==
    /\ pc = "refused" => live = {}
    /\ pc = "done" => live = IF Asynchronous THEN {} ELSE {"cluster"}

\* C19: when every step was accepted, the custom chunk writes are one per
\* chunk of type 0, in chunk order, for no other chunk, and after every
\* resource write.
C19_CustomChunksWritten ==
    (pc = "done" /\ params.refuse = "none")
    => LET IsCustom(w) == w.kind = "custom"
           IsTypeZero(k) == chunks[k + 1].type = 0
           customs == SelectSeq(writes, IsCustom)
           zeros == SelectSeq([k \in 1..Len(chunks) |-> k - 1], IsTypeZero)
       IN  /\ [k \in 1..Len(customs) |-> customs[k].index] = zeros
           /\ \A a, b \in 1..Len(writes) :
                 (writes[a].kind = "custom" /\ writes[b].kind = "resource") => b < a

\* ------------------------------------------------- prefix_resource_paths

\* C20: after prefix_resource_paths returned true, every resource's bytes
\* at path_offset are the prefix followed by its original path, its
\* path_size has grown by the prefix's length, and a NUL follows.
C20_PrefixedPaths ==
    (pc = "prefixed" /\ result = "true")
    => \A i \in 1..Len(resources) :
         LET r == resources[i]
             original == write_data.paths[i]
         IN  /\ r.path_size = Len(original) + Len(prefix)
             /\ r.path_offset + r.path_size < Len(paths_start)
             /\ SubSeq(paths_start, r.path_offset + 1, r.path_offset + r.path_size)
                  = prefix \o original
             /\ paths_start[r.path_offset + r.path_size + 1] = 0

\* C21: a call of prefix_resource_paths with a buffer smaller than
\* paths_info.size + count * prefix.size returns false and leaves the
\* buffer's bytes and every resource's path_offset and path_size as they were.
C21_SmallBufferRefused ==
    [][(pc = "prefix"
          /\ Len(paths_start) < paths_info.size + Len(resources) * Len(prefix))
       => (pc' = "prefixed" /\ result' = "false"
             /\ paths_start' = paths_start /\ resources' = resources)]_vars

C21_Witness ==
    /\ pc = "prefixed"
    /\ result = "false"
    /\ Len(resources) >= 1
    /\ Len(paths_start) = paths_info.size + Len(resources) * Len(prefix) - 1
    /\ resources = laid_resources(write_data.paths)

\* C22: in every turn of the loop of prefix_resource_paths the bytes that
\* arrive at the path's new place are the bytes the path had before the
\* turn, and the paths of the resources still to be processed are untouched.
C22_NoDestructiveAlias ==
    [][(pc = "prefix_loop" /\ resource_idx' = resource_idx - 1)
       => LET res == resources[resource_idx]
              path_at == ex_paths_end - res.path_size
          IN  /\ \A k \in 1..res.path_size :
                    path_at + k >= 1
                    => paths_start'[path_at + k] = paths_start[res.path_offset + k]
              /\ \A j \in 1..(resource_idx - 1) :
                    \A k \in 1..resources[j].path_size :
                        paths_start'[resources[j].path_offset + k]
                          = paths_start[resources[j].path_offset + k]]_vars

\* C30: on a path block and resource table laid out by the writer and a
\* buffer of at least the computed size, prefix_resource_paths reads nothing
\* in front of the buffer, ends its walk at paths_start and returns true.
C30_PrefixSucceeds ==
    Len(paths_start) >= paths_info.size + Len(resources) * Len(prefix)
    => /\ "read_out_of_range" \notin ub
       /\ pc # "assert_failed"
       /\ pc = "prefixed" => result = "true"

\* ----------------------------------------------------- the emitter's writes

\* The bytes a positioned write carries, from the values the emitter holds.
WriteBytes(w) ==
    IF w.kind = "header" THEN HeaderBytes(header)
    ELSE IF w.kind = "paths_info" THEN PathsBytes(paths_info)
    ELSE IF w.kind = "chunks"
         THEN Flatten([k \in 1..Len(chunks) |-> ChunkBytes(chunks[k])])
    ELSE IF w.kind = "metadata" THEN Fill(w.size, MetaByte(w.index))
    ELSE IF w.kind = "resource" THEN Fill(w.size, DataByte(w.index))
    ELSE IF w.kind = "custom" THEN CustomBytes(w.size)
    ELSE IF w.kind = "paths_data" THEN paths_data
    ELSE Flatten([k \in 1..Len(pack_resources) |-> ResourceBytes(pack_resources[k])])

RECURSIVE scattered(_, _)
\* A stream sink that copies every write it receives into buf at the
\* write's offset.
scattered(buf, ws) ==
    IF ws = <<>> THEN buf
    ELSE scattered(memcpy_at(buf, Head(ws).offset, WriteBytes(Head(ws))), Tail(ws))

\* C23: the buffer write_cluster returns equals the positioned writes of the
\* emitter scattered into a zero-filled buffer of the cluster's size.
C23_SinkEquivalence ==
    (pc = "done" /\ ~Asynchronous /\ result = "cluster")
    => memory = scattered(Fill(final_cluster_size, 0), writes)

\* The writes issued so far follow an order that gives every kind of write
\* its place among the emitter's steps: no step comes before an
\* earlier one, the blobs come in input order, a metadata write is directly
\* followed by the blob of the resource it was issued for, and once the
\* emitter has finalized, each header and table was written once and every
\* resource's blob was written.
WritesOrdered(order) ==
    LET IsBlob(w) == w.kind = "resource"
        blobs == SelectSeq(writes, IsBlob)
        Once(kind) == Cardinality({k \in 1..Len(writes) : writes[k].kind = kind}) = 1
    IN  /\ \A a, b \in 1..Len(writes) :
              a < b => order[writes[a].kind] <= order[writes[b].kind]
        /\ \A k \in 1..Len(blobs) : blobs[k].index = k - 1
        /\ \A a \in 1..Len(writes) :
              (writes[a].kind = "metadata" /\ a < Len(writes))
              => writes[a + 1].kind = "resource"
        /\ pc = "done"
           => /\ \A kind \in {"header", "paths_info", "chunks", "paths_data", "resources"} :
                    Once(kind)
              /\ Len(blobs) = res_count

\* C26: header, path descriptor and chunk table are written first, then for
\* each resource in input order its metadata (if any) and its blob, then the
\* custom chunks, then the resource table followed by the path block, which
\* is the last write when the emitter has finalized.
C26_WriteOrder ==
    WritesOrdered([header |-> 1, paths_info |-> 2, chunks |-> 3, metadata |-> 4,
                   resource |-> 4, custom |-> 5, resources |-> 6, paths_data |-> 7])

\* C26 amended: as C26, with the path block written before the resource
\* table, which is the last write when the emitter has finalized.
C26_WriteOrderPathsFirst ==
    WritesOrdered([header |-> 1, paths_info |-> 2, chunks |-> 3, metadata |-> 4,
                   resource |-> 4, custom |-> 5, paths_data |-> 6, resources |-> 7])

C26_Witness ==
    /\ pc = "done"
    /\ Asynchronous
    /\ res_count >= 2
    /\ \E k \in 1..Len(writes) : writes[k].kind = "custom"
    /\ Cardinality({k \in 1..Len(writes) : writes[k].kind = "metadata"}) = 1

\* ------------------------------------------------------------ the planner

\* The first pass is at the head of its loop.
Estimating == pc = "estimate"

\* C24: with the default heuristics, when the last chunk was created by the
\* first pass and holds nothing yet, the selection for the resource at hand
\* places it there: the iteration records the resource and creates nothing.
C24_CreatedChunkTakesResource ==
    (Estimating /\ idx < res_count /\ params.select = "default"
        /\ Len(chunks) > Max(1, Len(params.initial_chunks))
        /\ Len(sizes) = Len(chunks) /\ sizes[Len(sizes)] = 0)
    => \A o \in EstimateOutcomes : o.idx = idx + 1 /\ Len(o.chunks) = Len(chunks)

\* C25: the used bytes the first pass records for a chunk never exceed the
\* chunk's declared size.
C25_UsedWithinDeclared ==
    Estimating => \A k \in 1..Min(Len(sizes), Len(chunks)) : sizes[k] <= chunks[k].size

\* C29: while the first pass runs and after it, the used-bytes array has one
\* entry per planned chunk, no access to it was out of range, and a chunk
\* that holds no resource has used bytes 0.
C29_SizesPerChunk ==
    pc \notin {"start", "prefix", "prefixed", "input", "classified"}
    => /\ Estimating => Len(sizes) = Len(chunks)
       /\ "sizes_out_of_range" \notin ub
       /\ Estimating => \A k \in 1..Min(Len(sizes), Len(chunks)) :
                           (k > Len(params.initial_chunks) /\ chunks[k].count_entries = 0)
                           => sizes[k] = 0

\* ------------------------------------------------------- ranges of accesses

\* The writes of the tables, the records and the blobs that carry bytes.
RegionWrites == {k \in 1..Len(writes) : writes[k].kind # "custom" /\ writes[k].size > 0}

\* C27: every write of a header, a table, a metadata record, a blob or the
\* path block lies inside [0, final_cluster_size), and no two of them
\* overlap.
C27_WritesInsideCluster ==
    pc \in {"headers", "emit", "custom", "done", "read"}
    => /\ \A k \in RegionWrites :
             writes[k].offset + writes[k].size <= final_cluster_size
       /\ \A a, b \in RegionWrites :
             a < b => \/ writes[a].offset + writes[a].size <= writes[b].offset
                      \/ writes[b].offset + writes[b].size <= writes[a].offset

\* C28: on a view that passes the magic, version and header_size tests,
\* every byte read_header reads lies inside the view.
C28_ReadsInsideView ==
    (pc = "input" /\ ~read_data.null)
    => read_extent(memory, read_data.size, read_data.null) <= read_data.size

====
